---- MODULE Spec2Model ----
(***************************************************************************)
(* Model of tests/export/test_nemo_export.py: the accuracy harness         *)
(* get_accuracy_with_lambada and the orchestration around it               *)
(* (run_trt_llm_inference, run_existing_checkpoints, run_inference_tests). *)
(*                                                                         *)
(* Strings are sequences of one-character strings.  The exporter, the      *)
(* deployment service and the query client are external collaborators:     *)
(* the text they generate is a nondeterministic choice from `vocab`, and   *)
(* a query round-trip may raise.                                           *)
(***************************************************************************)
EXTENDS Integers, Sequences, FiniteSets, TLC

VARIABLES
    pc,                 \* control position
    exception,          \* the exception that ended the process, or "None"
    stack,              \* the active calls, outermost first; kept by a raise
    \* ---- environment
    vocab,              \* raw strings the fixture and the engines may hold
    num_records,        \* len(records) of the fixture at test_data_path
    device_count,       \* torch.cuda.device_count()
    fs,                 \* the paths that exist
    model_info,         \* get_infer_test_data()[model_name], or NoModel
    \* ---- run_inference_tests
    args, n_gpus, result_dic, test_result,
    \* ---- run_trt_llm_inference
    nm,                 \* the deployment service: "None", "running", "stopped"
    nq,                 \* the query client: "None" or "client"
    calls,              \* the calls this run_trt_llm_inference has made, in order
    ret,                \* the four values last returned to run_inference_tests
    \* ---- get_accuracy_with_lambada
    test_data_path,
    rec_idx,            \* records the for loop has bound so far
    all_expected_outputs_len,
    expected_output, trtllm_output, trtllm_deployed_output,
    trtllm_correct, trtllm_correct_relaxed,
    trtllm_deployed_correct, trtllm_deployed_correct_relaxed,
    forward_calls,      \* model.forward calls of this evaluation
    query_calls,        \* nq.query_llm calls of this evaluation
    acc_ret             \* the four ratios get_accuracy_with_lambada returned

env_vars == <<vocab, num_records, device_count, model_info>>
rit_vars == <<args, n_gpus, result_dic, test_result>>
rti_vars == <<nm, calls, ret, fs>>
acc_vars == <<test_data_path, rec_idx, all_expected_outputs_len, expected_output,
              trtllm_output, trtllm_deployed_output, trtllm_correct,
              trtllm_correct_relaxed, trtllm_deployed_correct,
              trtllm_deployed_correct_relaxed, forward_calls, query_calls, acc_ret>>
vars == <<pc, exception, stack, nq, env_vars, rit_vars, rti_vars, acc_vars>>

(***************************************************************************)
(* Bounds                                                                  *)
(***************************************************************************)
MaxLen == 3             \* longest raw string
MaxRecords == 2         \* longest fixture
MaxGpus == 4            \* largest --max_gpus
MaxMinGpus == 2         \* largest --min_gpus and largest model minimum
MaxDevices == 2         \* largest number of available GPUs

(***************************************************************************)
(* Strings: str.strip, str.lower, str.startswith                           *)
(***************************************************************************)
Alphabet == {"a", "B", " "}

RECURSIVE StringsOfLen(_)
StringsOfLen(k) ==
    IF k = 0 THEN {<<>>}
    ELSE {Append(s, c) : s \in StringsOfLen(k - 1), c \in Alphabet}

StringsUpTo(n) == UNION {StringsOfLen(k) : k \in 0..n}

Tokens == StringsUpTo(MaxLen)

IsSpace(c) == c = " "

LowerChar(c) == IF c = "B" THEN "b" ELSE c

RECURSIVE Lower(_)
Lower(s) == IF s = <<>> THEN <<>> ELSE <<LowerChar(Head(s))>> \o Lower(Tail(s))

RECURSIVE LStrip(_)
LStrip(s) ==
    IF s # <<>> /\ IsSpace(Head(s)) THEN LStrip(Tail(s)) ELSE s

RECURSIVE RStrip(_)
RStrip(s) ==
    IF s # <<>> /\ IsSpace(s[Len(s)]) THEN RStrip(SubSeq(s, 1, Len(s) - 1)) ELSE s

Strip(s) == RStrip(LStrip(s))

\* x.strip().lower()
Normalize(s) == Lower(Strip(s))

RECURSIVE StartsWith(_, _)
StartsWith(s, prefix) ==
    IF prefix = <<>> THEN TRUE
    ELSE IF s = <<>> THEN FALSE
    ELSE Head(s) = Head(prefix) /\ StartsWith(Tail(s), Tail(prefix))

(***************************************************************************)
(* The comparisons of one record                                           *)
(***************************************************************************)
ExactMatch(expected, output) == expected = output

\* a variant that forgets expected_output.startswith(trtllm_output)
PrefixConditionOneWay(expected, output) ==
    \/ expected = output
    \/ StartsWith(output, expected)

PrefixCondition(expected, output) ==
    \/ expected = output
    \/ StartsWith(output, expected)
    \/ StartsWith(expected, output)

\* a variant that forgets len(expected_output) > 1
SingleCharExclusionAnyExpected(expected, output) == Len(output) = 1

SingleCharExclusion(expected, output) == Len(output) = 1 /\ Len(expected) > 1

\* the record leaves the loop body through `continue`
TakesContinue(expected, output) ==
    PrefixCondition(expected, output) /\ SingleCharExclusion(expected, output)

RelaxedMatch(expected, output) ==
    PrefixCondition(expected, output) /\ ~SingleCharExclusion(expected, output)

(***************************************************************************)
(* Values                                                                  *)
(***************************************************************************)
NoneR == [isNone |-> TRUE, num |-> 0, den |-> 0]
Ratio(count, n) == [isNone |-> FALSE, num |-> count, den |-> n]
NoneResults == <<NoneR, NoneR, NoneR, NoneR>>
Unbound == <<"unbound">>
NoModel == [supported |-> FALSE, min_gpus |-> 1,
            p_tuning_checkpoint |-> "None", lora_checkpoint |-> "None"]
NoArgs == [existing_test_models |-> FALSE, min_gpus |-> 1, max_gpus |-> <<>>,
           ptuning |-> FALSE, p_tuning_checkpoint |-> "None",
           lora |-> FALSE, lora_checkpoint |-> "None",
           test_deployment |-> "False", run_accuracy |-> FALSE,
           test_data_path |-> "None"]

\* the locals of get_accuracy_with_lambada before the call
AccIdle ==
    /\ rec_idx = 0
    /\ all_expected_outputs_len = 0
    /\ expected_output = Unbound
    /\ trtllm_output = Unbound
    /\ trtllm_deployed_output = Unbound
    /\ trtllm_correct = 0
    /\ trtllm_correct_relaxed = 0
    /\ trtllm_deployed_correct = 0
    /\ trtllm_deployed_correct_relaxed = 0
    /\ forward_calls = 0
    /\ query_calls = 0
    /\ acc_ret = NoneResults

\* the frame of get_accuracy_with_lambada is dropped
AccDropped ==
    /\ rec_idx' = 0
    /\ all_expected_outputs_len' = 0
    /\ expected_output' = Unbound
    /\ trtllm_output' = Unbound
    /\ trtllm_deployed_output' = Unbound
    /\ trtllm_correct' = 0
    /\ trtllm_correct_relaxed' = 0
    /\ trtllm_deployed_correct' = 0
    /\ trtllm_deployed_correct_relaxed' = 0
    /\ forward_calls' = 0
    /\ query_calls' = 0
    /\ acc_ret' = NoneResults

(***************************************************************************)
(* get_accuracy_with_lambada                                               *)
(***************************************************************************)
Top(st) == st[Len(st)]
Pop(st) == SubSeq(st, 1, Len(st) - 1)

Raise(e) ==
    /\ pc' = "raised"
    /\ exception' = e

\* lines 38-49: the argument check, the counters, the fixture is loaded
AccEntry ==
    /\ pc = "acc_entry"
    /\ IF test_data_path = "None"
       THEN /\ Raise("test_data_path cannot be None.")
            /\ UNCHANGED <<rec_idx, all_expected_outputs_len, trtllm_correct,
                           trtllm_correct_relaxed, trtllm_deployed_correct,
                           trtllm_deployed_correct_relaxed>>
       ELSE /\ pc' = "acc_for"
            /\ trtllm_correct' = 0
            /\ trtllm_deployed_correct' = 0
            /\ trtllm_correct_relaxed' = 0
            /\ trtllm_deployed_correct_relaxed' = 0
            /\ all_expected_outputs_len' = 0
            /\ rec_idx' = 0
            /\ UNCHANGED exception
    /\ UNCHANGED <<stack, nq, env_vars, rit_vars, rti_vars, test_data_path,
                   expected_output, trtllm_output, trtllm_deployed_output,
                   forward_calls, query_calls, acc_ret>>

\* lines 51-53: the loop binds the next record, or ends
AccFor ==
    /\ pc = "acc_for"
    /\ IF rec_idx < num_records
       THEN \E last_word \in vocab :
                /\ expected_output' = Normalize(last_word)
                /\ rec_idx' = rec_idx + 1
                /\ pc' = "acc_forward"
       ELSE /\ pc' = "acc_ratios"
            /\ UNCHANGED <<expected_output, rec_idx>>
    /\ UNCHANGED <<exception, stack, nq, env_vars, rit_vars, rti_vars,
                   test_data_path, all_expected_outputs_len,
                   trtllm_output, trtllm_deployed_output, trtllm_correct,
                   trtllm_correct_relaxed, trtllm_deployed_correct,
                   trtllm_deployed_correct_relaxed, forward_calls, query_calls,
                   acc_ret>>

\* lines 54-80: the local engine generates, the output is compared
AccForward ==
    /\ pc = "acc_forward"
    /\ \E generated \in vocab :
         LET output == Normalize(generated) IN
           /\ trtllm_output' = output
           /\ forward_calls' = forward_calls + 1
           /\ all_expected_outputs_len' = all_expected_outputs_len + 1
           /\ trtllm_correct' =
                IF ExactMatch(expected_output, output)
                THEN trtllm_correct + 1 ELSE trtllm_correct
           /\ trtllm_correct_relaxed' =
                IF RelaxedMatch(expected_output, output)
                THEN trtllm_correct_relaxed + 1 ELSE trtllm_correct_relaxed
           /\ pc' = IF TakesContinue(expected_output, output) THEN "acc_for"
                    ELSE IF nq # "None" THEN "acc_query"
                    ELSE "acc_for"
    /\ UNCHANGED <<exception, stack, nq, env_vars, rit_vars, rti_vars,
                   test_data_path, rec_idx, expected_output,
                   trtllm_deployed_output, trtllm_deployed_correct,
                   trtllm_deployed_correct_relaxed, query_calls, acc_ret>>

\* lines 81-96: the deployed engine is queried, the output is compared
AccQuery ==
    /\ pc = "acc_query"
    /\ \/ /\ Raise("QueryError")
          /\ query_calls' = query_calls + 1
          /\ UNCHANGED <<trtllm_deployed_output, trtllm_deployed_correct,
                         trtllm_deployed_correct_relaxed>>
       \/ \E generated \in vocab :
            LET output == Normalize(generated) IN
              /\ trtllm_deployed_output' = output
              /\ query_calls' = query_calls + 1
              /\ trtllm_deployed_correct' =
                   IF ExactMatch(expected_output, output)
                   THEN trtllm_deployed_correct + 1 ELSE trtllm_deployed_correct
              /\ trtllm_deployed_correct_relaxed' =
                   IF RelaxedMatch(expected_output, output)
                   THEN trtllm_deployed_correct_relaxed + 1
                   ELSE trtllm_deployed_correct_relaxed
              /\ pc' = "acc_for"
              /\ UNCHANGED exception
    /\ UNCHANGED <<stack, nq, env_vars, rit_vars, rti_vars, test_data_path,
                   rec_idx, all_expected_outputs_len, expected_output,
                   trtllm_output, trtllm_correct, trtllm_correct_relaxed,
                   forward_calls, acc_ret>>

\* lines 98-111: the four divisions and the return
AccRatios ==
    /\ pc = "acc_ratios"
    /\ IF all_expected_outputs_len = 0
       THEN /\ Raise("ZeroDivisionError")
            /\ UNCHANGED <<acc_ret, stack>>
       ELSE /\ acc_ret' = <<Ratio(trtllm_correct, all_expected_outputs_len),
                            Ratio(trtllm_correct_relaxed, all_expected_outputs_len),
                            Ratio(trtllm_deployed_correct, all_expected_outputs_len),
                            Ratio(trtllm_deployed_correct_relaxed,
                                  all_expected_outputs_len)>>
            /\ stack' = Pop(stack)
            /\ pc' = IF Pop(stack) = <<>> THEN "done" ELSE "rti_after_accuracy"
            /\ UNCHANGED exception
    /\ UNCHANGED <<nq, env_vars, rit_vars, rti_vars, test_data_path,
                   rec_idx, all_expected_outputs_len, expected_output,
                   trtllm_output, trtllm_deployed_output, trtllm_correct,
                   trtllm_correct_relaxed, trtllm_deployed_correct,
                   trtllm_deployed_correct_relaxed, forward_calls, query_calls>>

(***************************************************************************)
(* The accuracy harness called on its own                                  *)
(***************************************************************************)
\* long tokens against one record, tokens of at most two characters
\* against longer fixtures
InitAcc ==
    /\ pc = "acc_entry"
    /\ exception = "None"
    /\ stack = <<"get_accuracy_with_lambada">>
    /\ num_records \in 0..MaxRecords
    /\ vocab = IF num_records <= 1 THEN Tokens ELSE {t \in Tokens : Len(t) <= 2}
    /\ device_count = 1
    /\ fs = {}
    /\ model_info = NoModel
    /\ args = NoArgs
    /\ n_gpus = 1
    /\ result_dic = <<>>
    /\ test_result = "None"
    /\ nm = "None"
    /\ nq \in {"None", "client"}
    /\ calls = <<>>
    /\ ret = NoneResults
    /\ AccIdle
    /\ test_data_path \in {"None", "lambada.json"}

NextAcc == AccEntry \/ AccFor \/ AccForward \/ AccQuery \/ AccRatios

SpecAcc == InitAcc /\ [][NextAcc]_vars

(***************************************************************************)
(* run_trt_llm_inference                                                   *)
(***************************************************************************)
\* the p_tuning_checkpoint and lora_checkpoint arguments: from the command
\* line (lines 496, 498) or from the model's entry (lines 308, 315)
PTuningCheckpoint ==
    IF args.existing_test_models THEN model_info.p_tuning_checkpoint
    ELSE args.p_tuning_checkpoint

LoraCheckpoint ==
    IF args.existing_test_models THEN model_info.lora_checkpoint
    ELSE args.lora_checkpoint

\* the call itself
RtiCalled ==
    /\ pc' = "rti_check"
    /\ stack' = Append(stack, "run_trt_llm_inference")

\* a return to run_inference_tests (through run_existing_checkpoints)
Return(values) ==
    /\ pc' = "rit_store"
    /\ stack' = <<"run_inference_tests">>
    /\ ret' = values

\* a variant that creates the engine directory before it tests the checkpoint
RtiCheckMkdirFirst ==
    /\ pc = "rti_check"
    /\ fs' = fs \cup {"trt_llm_model_dir"}
    /\ calls' = Append(calls, "mkdir")
    /\ IF "checkpoint" \notin fs
       THEN Raise("Checkpoint could not be found.")
       ELSE IF n_gpus > device_count
       THEN Raise("NameError")
       ELSE pc' = "rti_adapters" /\ UNCHANGED exception
    /\ UNCHANGED <<stack, nq, env_vars, rit_vars, nm, ret, acc_vars>>

\* lines 140-149, 274-275: the checkpoint, the GPU count, the engine directory
RtiCheck ==
    /\ pc = "rti_check"
    /\ IF "checkpoint" \notin fs
       THEN /\ Raise("Checkpoint could not be found.")
            /\ UNCHANGED <<fs, calls>>
       ELSE IF n_gpus > device_count
       THEN \* line 144 reads model_info, which is no name of this scope
            /\ Raise("NameError")
            /\ UNCHANGED <<fs, calls>>
       ELSE /\ fs' = fs \cup {"trt_llm_model_dir"}
            /\ calls' = Append(calls, "mkdir")
            /\ pc' = "rti_adapters"
            /\ UNCHANGED exception
    /\ UNCHANGED <<stack, nq, env_vars, rit_vars, nm, ret, acc_vars>>

\* lines 161-193: the prompt-tuning and LoRA checkpoints
RtiAdapters ==
    /\ pc = "rti_adapters"
    /\ IF args.ptuning /\ PTuningCheckpoint = "None"
       THEN /\ Raise("TypeError") /\ UNCHANGED <<ret, stack>>
       ELSE IF args.ptuning /\ PTuningCheckpoint \notin fs
       THEN /\ Return(NoneResults) /\ UNCHANGED exception
       ELSE IF args.lora /\ LoraCheckpoint = "None"
       THEN /\ Raise("TypeError") /\ UNCHANGED <<ret, stack>>
       ELSE IF args.lora /\ LoraCheckpoint \notin fs
       THEN /\ Return(NoneResults) /\ UNCHANGED exception
       ELSE /\ pc' = "rti_export" /\ UNCHANGED <<exception, ret, stack>>
    /\ UNCHANGED <<nq, env_vars, rit_vars, nm, calls, fs, acc_vars>>

\* lines 195-208
RtiExport ==
    /\ pc = "rti_export"
    /\ calls' = Append(calls, "export")
    /\ pc' = IF args.ptuning THEN "rti_prompt_table" ELSE "rti_forward"
    /\ UNCHANGED <<exception, stack, nq, env_vars, rit_vars, nm, ret, fs, acc_vars>>

\* lines 210-213
RtiPromptTable ==
    /\ pc = "rti_prompt_table"
    /\ calls' = Append(calls, "add_prompt_table")
    /\ pc' = "rti_forward"
    /\ UNCHANGED <<exception, stack, nq, env_vars, rit_vars, nm, ret, fs, acc_vars>>

\* lines 215-230
RtiForward ==
    /\ pc = "rti_forward"
    /\ calls' = Append(calls, "forward")
    /\ pc' = IF args.test_deployment THEN "rti_deploy" ELSE "rti_accuracy"
    /\ UNCHANGED <<exception, stack, nq, env_vars, rit_vars, nm, ret, fs, acc_vars>>

\* lines 231-234
RtiDeploy ==
    /\ pc = "rti_deploy"
    /\ nm' = "running"
    /\ nq' = "client"
    /\ calls' = calls \o <<"deploy", "run">>
    /\ pc' = "rti_query"
    /\ UNCHANGED <<exception, stack, env_vars, rit_vars, ret, fs, acc_vars>>

\* a variant that tears down when the round-trip raises
RtiQueryGuarded ==
    /\ pc = "rti_query"
    /\ \/ /\ Raise("QueryError")
          /\ nm' = "stopped"
          /\ calls' = calls \o <<"query_llm", "stop", "rmtree">>
          /\ fs' = fs \ {"trt_llm_model_dir"}
       \/ /\ pc' = "rti_accuracy"
          /\ calls' = Append(calls, "query_llm")
          /\ UNCHANGED <<exception, nm, fs>>
    /\ UNCHANGED <<stack, nq, env_vars, rit_vars, ret, acc_vars>>

\* lines 236-243: the round-trip to the deployed engine answers or raises
RtiQuery ==
    /\ pc = "rti_query"
    /\ calls' = Append(calls, "query_llm")
    /\ \/ Raise("QueryError")
       \/ pc' = "rti_accuracy" /\ UNCHANGED exception
    /\ UNCHANGED <<stack, nq, env_vars, rit_vars, nm, ret, fs, acc_vars>>

\* lines 255-264: the accuracy evaluation is called, or skipped
RtiAccuracy ==
    /\ pc = "rti_accuracy"
    /\ IF args.run_accuracy
       THEN /\ pc' = "acc_entry"
            /\ stack' = Append(stack, "get_accuracy_with_lambada")
            /\ test_data_path' = args.test_data_path
            /\ calls' = Append(calls, "get_accuracy_with_lambada")
       ELSE /\ pc' = "rti_cleanup"
            /\ UNCHANGED <<stack, test_data_path, calls>>
    /\ UNCHANGED <<exception, nq, env_vars, rit_vars, nm, ret, fs, rec_idx,
                   all_expected_outputs_len, expected_output, trtllm_output,
                   trtllm_deployed_output, trtllm_correct, trtllm_correct_relaxed,
                   trtllm_deployed_correct, trtllm_deployed_correct_relaxed,
                   forward_calls, query_calls, acc_ret>>

\* a variant that removes the engine directory before it stops the service
TeardownDirFirst ==
    /\ nm' = IF args.test_deployment THEN "stopped" ELSE nm
    /\ calls' = calls \o <<"rmtree">>
                      \o (IF args.test_deployment THEN <<"stop">> ELSE <<>>)
    /\ fs' = fs \ {"trt_llm_model_dir"}

\* nm.stop() when deployed, then shutil.rmtree(trt_llm_model_dir)
Teardown ==
    /\ nm' = IF args.test_deployment THEN "stopped" ELSE nm
    /\ calls' = calls \o (IF args.test_deployment THEN <<"stop">> ELSE <<>>)
                      \o <<"rmtree">>
    /\ fs' = fs \ {"trt_llm_model_dir"}

\* lines 265-268: teardown after the evaluation; its frame is gone
RtiAfterAccuracy ==
    /\ pc = "rti_after_accuracy"
    /\ Teardown
    /\ Return(acc_ret)
    /\ test_data_path' = "None"
    /\ AccDropped
    /\ UNCHANGED <<exception, nq, env_vars, rit_vars>>

\* lines 270-273
RtiCleanup ==
    /\ pc = "rti_cleanup"
    /\ Teardown
    /\ Return(NoneResults)
    /\ UNCHANGED <<exception, nq, env_vars, rit_vars, acc_vars>>

(***************************************************************************)
(* run_existing_checkpoints                                                *)
(***************************************************************************)
\* lines 291-344
RunExistingCheckpoints ==
    /\ pc = "rec_entry"
    /\ IF n_gpus > device_count
       THEN /\ Return(NoneResults)
            /\ UNCHANGED exception
       ELSE IF ~model_info.supported
       THEN /\ Raise("Model is not supported.")
            /\ UNCHANGED <<ret, stack>>
       ELSE IF n_gpus < model_info.min_gpus
       THEN /\ Return(NoneResults)
            /\ UNCHANGED exception
       ELSE IF args.ptuning /\ model_info.p_tuning_checkpoint = "None"
       THEN /\ Raise("There is not ptuning checkpoint path defined.")
            /\ UNCHANGED <<ret, stack>>
       ELSE IF args.lora /\ model_info.lora_checkpoint = "None"
       THEN /\ Raise("There is not lora checkpoint path defined.")
            /\ UNCHANGED <<ret, stack>>
       ELSE /\ RtiCalled
            /\ UNCHANGED <<exception, ret>>
    /\ UNCHANGED <<nm, nq, calls, env_vars, rit_vars, fs, acc_vars>>

(***************************************************************************)
(* run_inference_tests                                                     *)
(***************************************************************************)
\* a variant that also fails a run at the threshold itself
BelowThresholdInclusive(r) == 2 * r.num <= r.den

\* line 529
BelowThreshold(r) == 2 * r.num < r.den

\* lines 521-530
Verdict(dic) ==
    IF \E i \in DOMAIN dic :
          /\ ~dic[i][1].isNone
          /\ ~dic[i][2].isNone
          /\ BelowThreshold(dic[i][2])
    THEN "FAIL" ELSE "PASS"

\* a variant that leaves the fixture path to get_accuracy_with_lambada
RitEntryUnchecked ==
    /\ pc = "rit_entry"
    /\ args' = [args EXCEPT
                  !.test_deployment = (args.test_deployment # "False"),
                  !.max_gpus = IF args.max_gpus = <<>>
                               THEN <<args.min_gpus>> ELSE args.max_gpus]
    /\ result_dic' = <<>>
    /\ n_gpus' = args.min_gpus
    /\ pc' = "rit_loop"
    /\ UNCHANGED <<exception, stack, nq, env_vars, test_result, rti_vars, acc_vars>>

\* lines 431-445, 474-477: the flags, the fixture path, the loop variables
RitEntry ==
    /\ pc = "rit_entry"
    /\ IF args.run_accuracy /\ args.test_data_path = "None"
       THEN \* the flag is already rewritten when the fixture path is tested
            /\ args' = [args EXCEPT
                          !.test_deployment = (args.test_deployment # "False")]
            /\ Raise("test_data_path param cannot be None.")
            /\ UNCHANGED <<n_gpus, result_dic>>
       ELSE /\ args' = [args EXCEPT
                          !.test_deployment = (args.test_deployment # "False"),
                          !.max_gpus = IF args.max_gpus = <<>>
                                       THEN <<args.min_gpus>> ELSE args.max_gpus]
            /\ result_dic' = <<>>
            /\ n_gpus' = args.min_gpus
            /\ pc' = "rit_loop"
            /\ UNCHANGED exception
    /\ UNCHANGED <<stack, nq, env_vars, test_result, rti_vars, acc_vars>>

\* lines 447-464, 479-509: the loop test and the call of one run
RitLoop ==
    /\ pc = "rit_loop"
    /\ IF n_gpus <= args.max_gpus[1]
       THEN \* a run starts: no service, no client, no call made yet
            /\ nm' = "None"
            /\ nq' = "None"
            /\ calls' = <<>>
            /\ IF args.existing_test_models
               THEN /\ pc' = "rec_entry"
                    /\ stack' = Append(stack, "run_existing_checkpoints")
               ELSE RtiCalled
       ELSE /\ pc' = "rit_summary"
            /\ UNCHANGED <<nm, nq, calls, stack>>
    /\ UNCHANGED <<exception, env_vars, rit_vars, ret, fs, acc_vars>>

\* a variant that steps to the next GPU count instead of doubling
RitStoreIncrement ==
    /\ pc = "rit_store"
    /\ result_dic' = [i \in DOMAIN result_dic \cup {n_gpus} |->
                        IF i = n_gpus THEN ret ELSE result_dic[i]]
    /\ n_gpus' = n_gpus + 1
    /\ pc' = "rit_loop"
    /\ UNCHANGED <<exception, stack, nq, env_vars, args, test_result, rti_vars,
                   acc_vars>>

\* lines 465-472, 510-517
RitStore ==
    /\ pc = "rit_store"
    /\ result_dic' = [i \in DOMAIN result_dic \cup {n_gpus} |->
                        IF i = n_gpus THEN ret ELSE result_dic[i]]
    /\ n_gpus' = n_gpus * 2
    /\ pc' = "rit_loop"
    /\ UNCHANGED <<exception, stack, nq, env_vars, args, test_result, rti_vars,
                   acc_vars>>

\* lines 519-535
RitSummary ==
    /\ pc = "rit_summary"
    /\ test_result' = Verdict(result_dic)
    /\ IF Verdict(result_dic) = "FAIL"
       THEN Raise("Model accuracy is below 0.5") /\ UNCHANGED stack
       ELSE pc' = "done" /\ stack' = Pop(stack) /\ UNCHANGED exception
    /\ UNCHANGED <<nq, env_vars, args, n_gpus, result_dic, rti_vars,
                   acc_vars>>

(***************************************************************************)
(* The script                                                              *)
(***************************************************************************)
\* an adapter flag with the checkpoint argument it makes the code read:
\* <<flag, path or "None", the path exists>>
AdapterCases(path) ==
    {<<FALSE, "None", FALSE>>, <<TRUE, "None", FALSE>>,
     <<TRUE, path, FALSE>>, <<TRUE, path, TRUE>>}

\* a fixture path is read only when the accuracy run is requested
AccuracyCases ==
    {<<FALSE, "None">>, <<TRUE, "None">>, <<TRUE, "lambada.json">>}

ModelInfos(pt, lo) ==
    {NoModel} \cup
    {[supported |-> TRUE, min_gpus |-> m,
      p_tuning_checkpoint |-> pt, lora_checkpoint |-> lo] : m \in 1..MaxMinGpus}

Init ==
    /\ pc = "rit_entry"
    /\ exception = "None"
    /\ stack = <<"run_inference_tests">>
    /\ num_records \in 0..MaxRecords
    \* two raw tokens: equal, longer than expected, and one character
    \* against a longer expected word all occur
    /\ vocab = {<<"a">>, <<"a", "B">>}
    /\ device_count \in 1..MaxDevices
    /\ \E existing \in BOOLEAN,
          pt \in AdapterCases("p_tuning_checkpoint"),
          lo \in AdapterCases("lora_checkpoint"),
          acc \in AccuracyCases,
          ckpt \in BOOLEAN :
         /\ fs = (IF ckpt THEN {"checkpoint"} ELSE {})
                   \cup (IF pt[3] THEN {pt[2]} ELSE {})
                   \cup (IF lo[3] THEN {lo[2]} ELSE {})
         /\ model_info \in (IF existing THEN ModelInfos(pt[2], lo[2]) ELSE {NoModel})
         /\ args \in
              [existing_test_models : {existing},
               min_gpus : 1..MaxMinGpus,
               max_gpus : {<<>>} \cup {<<m>> : m \in 1..MaxGpus},
               ptuning : {pt[1]},
               p_tuning_checkpoint : {IF existing THEN "None" ELSE pt[2]},
               lora : {lo[1]},
               lora_checkpoint : {IF existing THEN "None" ELSE lo[2]},
               test_deployment : {"False", "True"},
               run_accuracy : {acc[1]},
               test_data_path : {acc[2]}]
    /\ n_gpus = 1
    /\ result_dic = <<>>
    /\ test_result = "None"
    /\ nm = "None"
    /\ nq = "None"
    /\ calls = <<>>
    /\ ret = NoneResults
    /\ test_data_path = "None"
    /\ AccIdle

Next ==
    \/ RitEntry \/ RitLoop \/ RunExistingCheckpoints \/ RitStore \/ RitSummary
    \/ RtiCheck \/ RtiAdapters \/ RtiExport \/ RtiPromptTable \/ RtiForward
    \/ RtiDeploy \/ RtiQuery \/ RtiAccuracy \/ RtiAfterAccuracy \/ RtiCleanup
    \/ AccEntry \/ AccFor \/ AccForward \/ AccQuery \/ AccRatios

Spec == Init /\ [][Next]_vars

\* the script is one sequential process: a step that can be taken is taken
SpecFair == Spec /\ WF_vars(Next)

(***************************************************************************)
(* Properties of get_accuracy_with_lambada, under SpecAcc                  *)
(***************************************************************************)
InUnit(r) == ~r.isNone /\ r.den > 0 /\ 0 <= r.num /\ r.num <= r.den

\* C1: for every fixture, the empty one included, the call yields four
\* ratios, each in [0,1] and equal to its counter over the number of records.
C1_RatiosForEveryFixture ==
    /\ exception # "ZeroDivisionError"
    /\ pc = "done" =>
         /\ \A k \in 1..4 : InUnit(acc_ret[k]) /\ acc_ret[k].den = num_records
         /\ acc_ret[1].num = trtllm_correct
         /\ acc_ret[2].num = trtllm_correct_relaxed
         /\ acc_ret[3].num = trtllm_deployed_correct
         /\ acc_ret[4].num = trtllm_deployed_correct_relaxed

\* C2: after any number of processed records the exact counters never exceed
\* the relaxed counters, for the local and for the deployed output.
C2_ExactWithinRelaxed ==
    /\ trtllm_correct <= trtllm_correct_relaxed
    /\ trtllm_deployed_correct <= trtllm_deployed_correct_relaxed

C2_Witness ==
    /\ trtllm_correct = 1
    /\ trtllm_correct_relaxed = 2
    /\ trtllm_deployed_correct = 1
    /\ trtllm_deployed_correct_relaxed = 2
    /\ pc = "done"

\* C7: the denominator of each ratio is the number of records queried and
\* compared for it; with a client, every record is queried against the
\* deployed model exactly once.
C7_DenominatorIsRecordsQueried ==
    pc = "done" =>
      /\ acc_ret[1].den = forward_calls
      /\ acc_ret[2].den = forward_calls
      /\ nq # "None" =>
           /\ acc_ret[3].den = query_calls
           /\ acc_ret[4].den = query_calls
           /\ query_calls = num_records

\* prefix containment, stated on positions rather than by startswith
IsPrefixOf(p, s) == \E k \in 0..Len(s) : p = SubSeq(s, 1, k)

Containment(generated, expected) ==
    IsPrefixOf(generated, expected) \/ IsPrefixOf(expected, generated)

CountsAsRelaxed(generated, expected) ==
    /\ Containment(generated, expected)
    /\ ~(Len(generated) = 1 /\ Len(expected) > 1)

\* C10: a relaxed counter is incremented for a record exactly when the
\* generated and the expected token are in prefix containment and the
\* generated token is not a single character against a longer expected one.
C10_RelaxedIncrement ==
    [][/\ pc = "acc_forward" =>
            trtllm_correct_relaxed' = trtllm_correct_relaxed +
                (IF CountsAsRelaxed(trtllm_output', expected_output) THEN 1 ELSE 0)
       /\ pc # "acc_forward" =>
            trtllm_correct_relaxed' = trtllm_correct_relaxed
       /\ pc = "acc_query" /\ pc' # "raised" =>
            trtllm_deployed_correct_relaxed' = trtllm_deployed_correct_relaxed +
                (IF CountsAsRelaxed(trtllm_deployed_output', expected_output)
                 THEN 1 ELSE 0)
       /\ pc # "acc_query" \/ pc' = "raised" =>
            trtllm_deployed_correct_relaxed' = trtllm_deployed_correct_relaxed
      ]_vars

\* a two-character proper prefix of the expected token counted locally, an
\* empty token counted for the deployed engine
C10_Witness ==
    /\ Len(expected_output) = 3
    /\ Len(trtllm_output) = 2
    /\ IsPrefixOf(trtllm_output, expected_output)
    /\ trtllm_correct_relaxed = 1
    /\ trtllm_correct = 0
    /\ trtllm_deployed_output = <<>>
    /\ trtllm_deployed_correct_relaxed = 1

(***************************************************************************)
(* Properties of the orchestration, under Spec                             *)
(***************************************************************************)
Called(name) == \E i \in DOMAIN calls : calls[i] = name

Index(name) == CHOOSE i \in DOMAIN calls : calls[i] = name

EngineDirExists == "trt_llm_model_dir" \in fs

SomeRunBelowHalf ==
    \E g \in DOMAIN result_dic :
        ~result_dic[g][2].isNone /\ 2 * result_dic[g][2].num < result_dic[g][2].den

\* C3: the summary reports FAIL, and raises "Model accuracy is below 0.5",
\* exactly when some tested GPU count has a relaxed accuracy below 0.5;
\* otherwise it reports PASS and returns.  Skipped runs and a relaxed
\* accuracy of exactly 0.5 do not fail the test.
C3_FailIffBelowHalf ==
    /\ test_result # "None" =>
         /\ test_result = "FAIL" <=> SomeRunBelowHalf
         /\ test_result = "FAIL" =>
              pc = "raised" /\ exception = "Model accuracy is below 0.5"
         /\ test_result = "PASS" => pc = "done" /\ exception = "None"
    /\ pc = "done" => test_result = "PASS"
    /\ exception = "Model accuracy is below 0.5" => test_result = "FAIL"

\* a failing summary over one run below 0.5, one run at exactly 0.5 and one
\* skipped run
C3_Witness ==
    /\ test_result = "FAIL"
    /\ \E g \in DOMAIN result_dic : result_dic[g] = NoneResults
    /\ \E g \in DOMAIN result_dic :
         /\ ~result_dic[g][2].isNone
         /\ 2 * result_dic[g][2].num = result_dic[g][2].den
    /\ SomeRunBelowHalf

\* the run for n_gpus asks for more GPUs than there are, or for fewer than
\* the model needs
GpuShortfall ==
    \/ n_gpus > device_count
    \/ /\ args.existing_test_models
       /\ model_info.supported
       /\ n_gpus < model_info.min_gpus

\* C4: under such a shortfall the run is a soft skip on both paths: it
\* returns four None values, raises nothing, exports and deploys nothing.
C4_SoftSkipOnBothPaths ==
    (GpuShortfall /\ (args.existing_test_models \/ "checkpoint" \in fs)) =>
      /\ Len(stack) > 1 => pc \in {"rec_entry", "rti_check"}
      /\ pc = "rit_store" => ret = NoneResults /\ calls = <<>>

\* C5: with the checkpoint missing, run_trt_llm_inference raises at once,
\* whatever the other arguments: nothing was called before it, and the raise
\* creates no directory and calls nothing.
C5_MissingCheckpointRaisesAtOnce ==
    /\ [](pc = "rti_check" => calls = <<>> /\ nm = "None" /\ nq = "None")
    /\ [][pc = "rti_check" /\ "checkpoint" \notin fs =>
            /\ pc' = "raised"
            /\ exception' = "Checkpoint could not be found."
            /\ fs' = fs
            /\ calls' = <<>>
            /\ nm' = "None"
            /\ forward_calls' = 0
            /\ query_calls' = 0]_vars

C5_Witness ==
    /\ pc = "raised"
    /\ exception = "Checkpoint could not be found."
    /\ args.ptuning
    /\ args.lora
    /\ args.run_accuracy
    /\ args.test_deployment = TRUE
    /\ n_gpus > device_count
    /\ ~EngineDirExists

\* C6: an accuracy run without a fixture path makes run_inference_tests raise
\* before any run starts: nothing exported, deployed, queried or created.
C6_MissingFixtureRaisesFirst ==
    (args.run_accuracy /\ args.test_data_path = "None") =>
      /\ pc \in {"rit_entry", "raised"}
      /\ pc = "raised" =>
           /\ exception = "test_data_path param cannot be None."
           /\ stack = <<"run_inference_tests">>
      /\ calls = <<>>
      /\ ~EngineDirExists
      /\ nm = "None"
      /\ result_dic = <<>>
      /\ forward_calls = 0
      /\ query_calls = 0

C6_Witness ==
    /\ pc = "raised"
    /\ exception = "test_data_path param cannot be None."
    /\ args.test_deployment = TRUE
    /\ "checkpoint" \in fs

\* C8: every normal return of run_trt_llm_inference after its mkdir has
\* stopped the service it started and then removed the engine directory,
\* the prompt-tuning and LoRA skip returns included.
C8_TeardownOnEveryReturn ==
    (pc = "rit_store" /\ Called("mkdir")) =>
      /\ ~EngineDirExists
      /\ nm # "running"
      /\ Called("rmtree")
      /\ Called("deploy") => Called("stop") /\ Index("stop") < Index("rmtree")

\* C9: an exception raised inside run_trt_llm_inference after the service
\* was started skips the teardown: the service still runs and the engine
\* directory is still there.
C9_RaiseSkipsTeardown ==
    (/\ pc = "raised"
     /\ Top(stack) \in {"run_trt_llm_inference", "get_accuracy_with_lambada"}
     /\ Called("deploy")) =>
      /\ nm = "running"
      /\ EngineDirExists
      /\ ~Called("stop")
      /\ ~Called("rmtree")

C9_Witness ==
    /\ pc = "raised"
    /\ exception = "ZeroDivisionError"
    /\ Top(stack) = "get_accuracy_with_lambada"
    /\ Called("deploy")
    /\ nm = "running"
    /\ EngineDirExists

\* the calls of a run that goes through to its last return, in the order
\* the claim gives them
OrderedCalls ==
    <<"mkdir", "export">>
    \o (IF args.ptuning THEN <<"add_prompt_table">> ELSE <<>>)
    \o <<"forward">>
    \o (IF args.test_deployment THEN <<"deploy", "run", "query_llm">> ELSE <<>>)
    \o (IF args.run_accuracy THEN <<"get_accuracy_with_lambada">> ELSE <<>>)
    \o (IF args.test_deployment THEN <<"stop">> ELSE <<>>)
    \o <<"rmtree">>

\* C11: a run that reaches the exporter calls export, add_prompt_table (with
\* ptuning), forward, then deploy, run and the deployed query (with
\* test_deployment), the accuracy evaluation (with run_accuracy), stop (when
\* deployed) and rmtree, in this order; nothing is generated before export,
\* and the deployed engine is queried only while the service runs.
C11_CallOrder ==
    /\ Called("export") =>
         /\ Len(calls) <= Len(OrderedCalls)
         /\ calls = SubSeq(OrderedCalls, 1, Len(calls))
         /\ pc = "rit_store" => calls = OrderedCalls
    /\ forward_calls > 0 => Called("export") /\ ~Called("rmtree")
    /\ query_calls > 0 =>
         /\ Called("run")
         /\ ~Called("stop")
         /\ nm = "running"
    /\ Called("query_llm") => Called("deploy") /\ Called("run")
    /\ nm = "running" <=> Called("run") /\ ~Called("stop")

\* a run with prompt tuning, deployment and accuracy has returned
C11_Witness ==
    /\ pc = "rit_store"
    /\ calls = <<"mkdir", "export", "add_prompt_table", "forward", "deploy", "run",
                 "query_llm", "get_accuracy_with_lambada", "stop", "rmtree">>
    /\ ~ret[4].isNone

(***************************************************************************)
(* The GPU-count loop, under SpecFair                                      *)
(***************************************************************************)
RECURSIVE Pow2(_)
Pow2(k) == IF k = 0 THEN 1 ELSE 2 * Pow2(k - 1)

\* max_gpus, with min_gpus standing in when it is absent
EffectiveMax == IF args.max_gpus = <<>> THEN args.min_gpus ELSE args.max_gpus[1]

\* the values min_gpus * 2^k that do not exceed max_gpus
GpuCounts ==
    {g \in 1..EffectiveMax : \E k \in 0..EffectiveMax : g = args.min_gpus * Pow2(k)}

LoopReached == pc \notin {"rit_entry"} /\ exception # "test_data_path param cannot be None."

Terminated == pc \in {"done", "raised"}

\* C12: for min_gpus >= 1 the loop terminates; the GPU counts it runs are the
\* values min_gpus * 2^k <= max_gpus, each once and in increasing order, with
\* one result entry per value; one run when max_gpus is absent, and no run
\* and PASS when max_gpus < min_gpus.
C12_GpuLoop ==
    /\ [](LoopReached =>
            \* the runs made so far are the values below the current one
            /\ \E k \in 0..(EffectiveMax + 1) : n_gpus = args.min_gpus * Pow2(k)
            /\ DOMAIN result_dic = {g \in GpuCounts : g < n_gpus}
            /\ Len(stack) > 1 \/ pc = "rit_store" => n_gpus \in GpuCounts
            \* at the end of the loop every value has its entry
            /\ pc \in {"rit_summary", "done"} \/ test_result # "None" =>
                 DOMAIN result_dic = GpuCounts
            /\ pc = "done" /\ EffectiveMax < args.min_gpus =>
                 result_dic = <<>> /\ test_result = "PASS")
    /\ [][pc = "rit_store" =>
            /\ n_gpus \notin DOMAIN result_dic
            /\ \A g \in DOMAIN result_dic : g < n_gpus
            /\ DOMAIN result_dic' = DOMAIN result_dic \cup {n_gpus}
            /\ n_gpus' > n_gpus]_vars
    /\ <>Terminated

\* three runs, 1, 2 and 4 GPUs, each with its entry, and the summary reached
C12_Witness ==
    /\ pc = "done"
    /\ args.min_gpus = 1
    /\ DOMAIN result_dic = {1, 2, 4}
    /\ ~result_dic[1][1].isNone
    /\ result_dic[4] = NoneResults

\* no run at all: max_gpus below min_gpus
C12_NoRun ==
    /\ pc = "done"
    /\ args.max_gpus = <<1>>
    /\ args.min_gpus = 2
    /\ result_dic = <<>>
    /\ test_result = "PASS"

====
